---- MODULE Spec2Model ----
(***************************************************************************)
(* A model of fdic/query.py: the UBPR archive scan (get_raw_ubpr_data),    *)
(* the roster loader (get_sorted_inst_data), the roster join               *)
(* (get_ubpr_inst_data) and the roster download (download_inst_file).      *)
(*                                                                         *)
(* Python values: a str is a TLA+ string, a float is an integer counting   *)
(* tenths (float("-89.2") is -892), a dict is a function from its keys, a  *)
(* list is a sequence.  An exception is the string naming its class; ""    *)
(* means no exception.  Assert statements are active (the interpreter      *)
(* runs without -O).                                                       *)
(***************************************************************************)
EXTENDS Integers, Sequences, FiniteSets, TLC

VARIABLES
    \* get_raw_ubpr_data
    rssd_filter,    \* the rssd_filter argument
    scanned,        \* filenames of the entries zarc.infolist() has yielded so far
    item,           \* the loop variable: the entry of the current iteration
    results,        \* the results list
    warnings,       \* filenames logging.warning was called with, in order
    raw_pc,         \* "idle", "scan", "returned" or "raised"
    raw_exc,        \* the exception get_raw_ubpr_data raised, or ""
    \* get_sorted_inst_data
    ifile,          \* the ifile argument
    FDIC_INST_FILE, \* the class attribute read from the environment
    inst_rows,      \* the rows csv.DictReader yields from the roster file
    inst_exists,    \* whether the temp-directory roster file already exists
    http_status,    \* the status of the answer to requests.get(INST_URL)
    sorted_ret,     \* what get_sorted_inst_data returned or raised
    \* get_ubpr_inst_data
    ubpr_zip_file,  \* the ubpr_zip_file argument
    zip_state,      \* what is at the resolved archive path
    inst_data,      \* the list get_sorted_inst_data returned
    ubpr_data,      \* the list get_raw_ubpr_data returned, updated in place
    join_idx,       \* how many items of ubpr_data the join loop has updated
    pc,             \* where get_ubpr_inst_data is
    exc,            \* the exception get_ubpr_inst_data raised, or NoExc
    \* download_inst_file, one caller per thread
    dl_pc,          \* each thread's position in download_inst_file
    lock,           \* the holder of cls._lock, or 0
    file            \* the roster file on disk: "absent", "partial" or "complete"

raw_vars == <<rssd_filter, scanned, item, results, warnings, raw_pc, raw_exc>>
sorted_vars == <<ifile, FDIC_INST_FILE, inst_rows, inst_exists, http_status, sorted_ret>>
join_vars == <<ubpr_zip_file, zip_state, inst_data, ubpr_data, join_idx, pc, exc>>
dl_vars == <<dl_pc, lock, file>>
vars == <<raw_vars, sorted_vars, join_vars, dl_vars>>

\* Bounds of the model.
MaxEntries == 2     \* entries of the archive
MaxTags == 2        \* field tags in one entry's text
MaxJoinTags == 1    \* field tags in one entry's text when the join is checked
MaxRows == 2        \* rows of the roster file
MaxThreads == 3     \* concurrent callers of download_inst_file

None == "None"
NoExc == [kind |-> "", path |-> ""]

(***************************************************************************)
(* Sample inputs.                                                          *)
(***************************************************************************)
Name12345 == "FFIEC CDR UBPR FI 12345(ID RSSD) 20230331(XBRL).xml"
Name99999 == "FFIEC CDR UBPR FI 99999(ID RSSD) 20230331(XBRL).xml"
Filenames == {Name12345, Name99999, "Readme.TXT", "notes.txt"}

\* The codes argument: field name -> its declaration.  UBPRE569 declares
\* 'convert': float as the default codes do; NAME declares no conversion.
codes == ("UBPRE569" :> [convert |-> "float"]) @@ ("NAME" :> [convert |-> None])

\* One match of field_re in a text: the field, the opening tag matched by
\* group o_<field> and the literal matched by group <field>.
Tags == {[field |-> "UBPRE569", open |-> "<uc:UBPRE569 a>", text |-> "-89.2"],
         [field |-> "UBPRE569", open |-> "<uc:UBPRE569 a>", text |-> "n/a"],
         [field |-> "NAME", open |-> "<uc:NAME a>", text |-> "Doc Name"]}

\* The matches re.finditer(field_re, text) yields for a text, in order.
Docs == UNION {[1..n -> Tags] : n \in 0..MaxTags}

\* The values rssd_filter takes: absent (None) or a set of identifiers.
Filters == {[given |-> FALSE, set |-> {}]}
             \cup {[given |-> TRUE, set |-> s] : s \in {{}, {"12345"}}}

(***************************************************************************)
(* get_raw_ubpr_data                                                       *)
(***************************************************************************)
\* file_re.search(filename): the match with its groups, or no match.
file_re(filename) ==
    CASE filename = Name12345 -> [matched |-> TRUE, rssd |-> "12345", date |-> "20230331"]
      [] filename = Name99999 -> [matched |-> TRUE, rssd |-> "99999", date |-> "20230331"]
      [] OTHER -> [matched |-> FALSE, rssd |-> "", date |-> ""]

\* str.lower()
lower(s) ==
    CASE s = "Readme.TXT" -> "readme.txt"
      [] s = Name12345 -> "ffiec cdr ubpr fi 12345(id rssd) 20230331(xbrl).xml"
      [] s = Name99999 -> "ffiec cdr ubpr fi 99999(id rssd) 20230331(xbrl).xml"
      [] OTHER -> s

\* float(text), in tenths; "ValueError" when the text is no number.
float(text) ==
    CASE text = "-89.2" -> [exc |-> "", value |-> -892]
      [] text = "10" -> [exc |-> "", value |-> 100]
      [] text = "5" -> [exc |-> "", value |-> 50]
      [] text = "7" -> [exc |-> "", value |-> 70]
      [] OTHER -> [exc |-> "ValueError", value |-> 0]

\* The truth value Python gives rssd_filter: None and the empty set are false.
Truthy(f) == f.given /\ f.set # {}

\* The comparison without the lower-casing.
WarnsMutant(filename) == filename # "readme.txt"
\* Line 164: whether a non-matching entry is warned about.
Warns(filename) == lower(filename) # "readme.txt"

\* Line 167: whether the filter skips a matching entry.
FilteredOut(f, rssd) == Truthy(f) /\ rssd \notin f.set

\* Lines 177-179: convert = codes.get(key, {}).get('convert', lambda x: x),
\* applied to the captured value.
Convert(key, value) ==
    IF key \in DOMAIN codes /\ codes[key].convert = "float"
    THEN float(value)
    ELSE [exc |-> "", value |-> value]

\* The opening tag's group left unnamed.
GroupItemsMutant(m) == <<[key |-> m.field, value |-> m.text]>>
\* match.groupdict().items() with the None values left out: the groups of the
\* alternative that matched, in the pattern's order.
GroupItems(m) == <<[key |-> "o_" \o m.field, value |-> m.open],
                   [key |-> m.field, value |-> m.text]>>

\* The assignment without the assert: a later value replaces an earlier one.
SetKeyMutant(info, kv) ==
    LET c == Convert(kv.key, kv.value)
    IN  IF c.exc # "" THEN [exc |-> c.exc, info |-> info]
        ELSE [exc |-> "", info |-> (kv.key :> c.value) @@ info]
\* Lines 175-179 for one (key, value) of a match: the assert, the conversion
\* and the assignment.
SetKey(info, kv) ==
    IF kv.key \in DOMAIN info THEN [exc |-> "AssertionError", info |-> info]
    ELSE LET c == Convert(kv.key, kv.value)
         IN  IF c.exc # "" THEN [exc |-> c.exc, info |-> info]
             ELSE [exc |-> "", info |-> (kv.key :> c.value) @@ info]

RECURSIVE SetKeys(_, _)
\* Line 174: the loop over the items of one match.
SetKeys(info, kvs) ==
    IF kvs = <<>> THEN [exc |-> "", info |-> info]
    ELSE LET r == SetKey(info, Head(kvs))
         IN  IF r.exc # "" THEN r ELSE SetKeys(r.info, Tail(kvs))

RECURSIVE Extract(_, _)
\* Lines 172-179: the loop over the matches of field_re in the entry's text.
Extract(info, matches) ==
    IF matches = <<>> THEN [exc |-> "", info |-> info]
    ELSE LET r == SetKeys(info, GroupItems(Head(matches)))
         IN  IF r.exc # "" THEN r ELSE Extract(r.info, Tail(matches))

\* Lines 169-170: the record of an entry before its fields are read.
MetaInfo(filename, match) ==
    ("filename" :> filename) @@ ("rssd" :> match.rssd) @@ ("date" :> match.date)

\* The entries an archive can hold: a name and the matches of its text (the
\* text of an entry whose name does not match is never read).
Entries(D) == {e \in [filename : Filenames, doc : D] :
                  file_re(e.filename).matched \/ e.doc = <<>>}

NoItem == [filename |-> "", doc |-> <<>>]
NotCalled == [called |-> FALSE, exc |-> "", value |-> <<>>]

\* Lines 161-180: one iteration of the loop over zarc.infolist().
ScanEntry(D) ==
    /\ raw_pc = "scan"
    /\ Len(scanned) < MaxEntries
    /\ \E e \in Entries(D) :
        LET match == file_re(e.filename)
            r == Extract(MetaInfo(e.filename, match), e.doc)
        IN  /\ item' = e
            /\ scanned' = Append(scanned, e.filename)
            /\ IF ~match.matched
               THEN /\ warnings' = IF Warns(e.filename)
                                   THEN Append(warnings, e.filename)
                                   ELSE warnings
                    /\ UNCHANGED <<results, raw_pc, raw_exc>>
               ELSE IF FilteredOut(rssd_filter, match.rssd)
               THEN UNCHANGED <<results, warnings, raw_pc, raw_exc>>
               ELSE IF r.exc # ""
               THEN /\ raw_pc' = "raised"
                    /\ raw_exc' = r.exc
                    /\ UNCHANGED <<results, warnings>>
               ELSE /\ results' = Append(results, r.info)
                    /\ UNCHANGED <<warnings, raw_pc, raw_exc>>
    /\ UNCHANGED rssd_filter

\* Line 181: infolist() is exhausted and the results are returned.
ReturnResults ==
    /\ raw_pc = "scan"
    /\ raw_pc' = "returned"
    /\ UNCHANGED <<rssd_filter, scanned, item, results, warnings, raw_exc>>

(***************************************************************************)
(* Claims about get_raw_ubpr_data, checked under SpecRaw.                  *)
(***************************************************************************)
\* The entry of the current iteration was selected for extraction.
ItemQualifies ==
    /\ item # NoItem
    /\ file_re(item.filename).matched
    /\ ~FilteredOut(rssd_filter, file_re(item.filename).rssd)

Fields(doc) == {doc[i].field : i \in DOMAIN doc}
HasDuplicate(doc) == \E i, j \in DOMAIN doc : i < j /\ doc[i].field = doc[j].field
\* Every literal of a field declared 'convert': float is a number.
Convertible(doc) ==
    \A i \in DOMAIN doc : doc[i].field = "UBPRE569" => doc[i].text \in {"-89.2", "10", "5", "7"}
QualifyingName(n) ==
    file_re(n).matched /\ ~FilteredOut(rssd_filter, file_re(n).rssd)
LastRecord == results[Len(results)]
MetaKeys == {"filename", "rssd", "date"}

\* C3: when the text of the selected entry holds two tags of one field name,
\* the scan raises (an AssertionError, unless a conversion failed first), no
\* record is appended for the entry and no result list is returned.
C3_DuplicateFieldIsFatal ==
    (ItemQualifies /\ HasDuplicate(item.doc)) =>
        /\ raw_pc = "raised"
        /\ Convertible(item.doc) => raw_exc = "AssertionError"
        /\ Len(results) < Len(SelectSeq(scanned, QualifyingName))

C3_Witness ==
    /\ ItemQualifies
    /\ HasDuplicate(item.doc)
    /\ raw_exc = "AssertionError"
    /\ Len(results) = 1

\* C4 as stated: a selected entry with N distinct fields and no duplicate
\* yields a record holding exactly the three meta keys and the N field keys.
C4_OnlyFieldKeys ==
    (ItemQualifies /\ ~HasDuplicate(item.doc) /\ raw_pc # "raised") =>
        DOMAIN LastRecord = MetaKeys \cup Fields(item.doc)

\* C4 as amended: a selected entry with N distinct fields, no duplicate and
\* convertible literals yields a record of 3 + 2N keys: the meta keys, each
\* field with its converted literal (the raw text where no conversion is
\* declared) and, for each field, o_<field> with the opening tag's text.
C4_FieldAndOpeningTagKeys ==
    (ItemQualifies /\ ~HasDuplicate(item.doc) /\ Convertible(item.doc)) =>
        /\ raw_pc # "raised"
        /\ results # <<>>
        /\ DOMAIN LastRecord = MetaKeys \cup Fields(item.doc)
                                 \cup {"o_" \o f : f \in Fields(item.doc)}
        /\ Cardinality(DOMAIN LastRecord) = 3 + 2 * Len(item.doc)
        /\ LastRecord["filename"] = item.filename
        /\ \A i \in DOMAIN item.doc :
            LET t == item.doc[i]
            IN  /\ LastRecord["o_" \o t.field] = t.open
                /\ t.field = "NAME" => LastRecord[t.field] = t.text
                /\ t.field = "UBPRE569" =>
                       /\ LastRecord[t.field] \in Int
                       /\ t.text = "-89.2" => LastRecord[t.field] = -892

C4_Witness ==
    /\ ItemQualifies
    /\ Cardinality(Fields(item.doc)) = 2
    /\ results # <<>>
    /\ Cardinality(DOMAIN LastRecord) = 7
    /\ LastRecord["UBPRE569"] = -892

InGivenSet(n) == file_re(n).matched /\ file_re(n).rssd \in rssd_filter.set

\* C5 as stated: with a set given as rssd_filter, a matching entry whose rssd
\* is not in the set yields no record and no warning, and one whose rssd is
\* in the set yields a record.
C5_GivenSetFilters ==
    rssd_filter.given =>
        /\ \A i \in DOMAIN results : results[i]["rssd"] \in rssd_filter.set
        /\ \A i \in DOMAIN warnings : ~file_re(warnings[i]).matched
        /\ raw_pc # "raised" => Len(results) = Len(SelectSeq(scanned, InGivenSet))

StrangeName(n) == ~file_re(n).matched /\ n \notin {"readme.txt", "Readme.TXT"}

\* C7: an entry whose name does not match yields no record, one warning
\* unless its name is readme.txt in any case, and never ends the scan.
C7_ClassificationMiss ==
    /\ warnings = SelectSeq(scanned, StrangeName)
    /\ \A i \in DOMAIN results : file_re(results[i]["filename"]).matched
    /\ raw_pc = "raised" => file_re(item.filename).matched
    /\ raw_pc # "raised" =>
           Len(results) = Len(SelectSeq(scanned, QualifyingName))

C7_Witness ==
    /\ scanned = <<"notes.txt", "Readme.TXT">>
    /\ warnings = <<"notes.txt">>
    /\ raw_pc = "scan"

(***************************************************************************)
(* get_sorted_inst_data and the download_inst_file call it makes           *)
(***************************************************************************)
\* Rows of the roster file, as csv.DictReader yields them (every value a str).
Rows == {[FED_RSSD |-> "12345", NAME |-> "Example Bank", ASSET |-> "10", DEP |-> "7", INACTIVE |-> "0"],
         [FED_RSSD |-> "12345", NAME |-> "Example Branch", ASSET |-> "5", DEP |-> "7", INACTIVE |-> "0"],
         [FED_RSSD |-> "99999", NAME |-> "Other Bank", ASSET |-> "10", DEP |-> "", INACTIVE |-> "0"],
         [FED_RSSD |-> "99999", NAME |-> "Closed Bank", ASSET |-> "10", DEP |-> "7", INACTIVE |-> "1"]}
RosterFiles == UNION {[1..n -> Rows] : n \in 0..MaxRows}
Columns == {"FED_RSSD", "NAME", "ASSET", "DEP", "INACTIVE"}

TempInstFile == "/tmp/fdic_institutions.csv"
Paths == {None, "/data/institutions.csv"}

\* Python's truth value of a str or None.
Falsy(s) == s = None \/ s = ""

\* Lines 239-240: the sort key of a row for sort_keys = ('ASSET', 'DEP').
SortKey(row) ==
    <<IF row.ASSET # "" THEN float(row.ASSET).value ELSE 0,
      IF row.DEP # "" THEN float(row.DEP).value ELSE 0>>

\* Python's order on lists of numbers: a < b.
KeyLess(a, b) == a[1] < b[1] \/ (a[1] = b[1] /\ a[2] < b[2])

RECURSIVE InsertDesc(_, _)
\* Puts row behind every row of the sorted list whose key is not smaller.
InsertDesc(row, sorted) ==
    IF sorted = <<>> THEN <<row>>
    ELSE IF KeyLess(SortKey(Head(sorted)), SortKey(row))
         THEN <<row>> \o sorted
         ELSE <<Head(sorted)>> \o InsertDesc(row, Tail(sorted))

RECURSIVE SortedDesc(_)
\* Lines 239-241: sorted(data, key=..., reverse=True), a stable sort.
SortedDesc(data) ==
    IF data = <<>> THEN <<>>
    ELSE InsertDesc(data[Len(data)], SortedDesc(SubSeq(data, 1, Len(data) - 1)))

\* Line 238: the rows ignore_inactive keeps.
IsActive(row) == row.INACTIVE # "1"

\* Lines 210-227, one caller: the path download_inst_file returns, or the
\* exception of a failed download.
download_inst_file(path, cls_file, exists, status) ==
    LET p1 == IF Falsy(path) THEN cls_file ELSE path
        p2 == IF Falsy(p1) THEN TempInstFile ELSE p1
    IN  IF exists THEN [exc |-> "", path |-> p2]
        ELSE IF status # 200 THEN [exc |-> "AssertionError", path |-> p2]
        ELSE [exc |-> "", path |-> p2]

\* Lines 230-242 with the default sort_keys and ignore_inactive: os.path has no
\* attribute 'exist', so line 233 raises as soon as ifile is not falsy.
get_sorted_inst_data(path, cls_file, exists, status, rows) ==
    LET p == IF Falsy(path) THEN cls_file ELSE path
    IN  IF ~Falsy(p) THEN [called |-> TRUE, exc |-> "AttributeError", value |-> <<>>]
        ELSE LET d == download_inst_file(p, cls_file, exists, status)
             IN  IF d.exc # "" THEN [called |-> TRUE, exc |-> d.exc, value |-> <<>>]
                 ELSE [called |-> TRUE, exc |-> "",
                       value |-> SortedDesc(SelectSeq(rows, IsActive))]

\* A call of get_sorted_inst_data(ifile).
CallSorted ==
    /\ ~sorted_ret.called
    /\ sorted_ret' = get_sorted_inst_data(ifile, FDIC_INST_FILE, inst_exists,
                                          http_status, inst_rows)
    /\ UNCHANGED <<ifile, FDIC_INST_FILE, inst_rows, inst_exists, http_status>>

(***************************************************************************)
(* Claims about get_sorted_inst_data, checked under SpecSorted.            *)
(***************************************************************************)
Count(seq, x) == Cardinality({i \in DOMAIN seq : seq[i] = x})
\* The roster file can be had: it exists, or the download answers 200.
RosterAvailable == inst_exists \/ http_status = 200

\* C8: however the roster file is designated, the call returns the rows whose
\* INACTIVE is not "1", ordered non-increasing by ASSET and then DEP.
C8_SortedActiveRows ==
    (sorted_ret.called /\ RosterAvailable) =>
        /\ sorted_ret.exc = ""
        /\ \A r \in Rows : Count(sorted_ret.value, r)
                             = IF r.INACTIVE = "1" THEN 0 ELSE Count(inst_rows, r)
        /\ \A i, j \in DOMAIN sorted_ret.value :
               i < j => ~KeyLess(SortKey(sorted_ret.value[i]), SortKey(sorted_ret.value[j]))

(***************************************************************************)
(* get_ubpr_inst_data                                                      *)
(***************************************************************************)
DefaultZip == "/tmp/ubpr.zip"
ZipArgs == {None, "/data/ubpr.zip"}

\* The texts the archives of the join hold: at most MaxJoinTags tags each.
JoinDocs == {d \in Docs : Len(d) <= MaxJoinTags}

\* The argument used as it is given.
ResolveZipMutant(arg) == arg
\* Lines 185-186: ubpr_zip_file or os.path.join(tempfile.gettempdir(), 'ubpr.zip')
ResolveZip(arg) == IF Falsy(arg) THEN DefaultZip ELSE arg

\* Line 190: {i['FED_RSSD']: i for i in inst_data}; a later row replaces an
\* earlier one with the same FED_RSSD.
rssd_map(inst) ==
    [k \in {inst[i].FED_RSSD : i \in DOMAIN inst} |->
        LET last == CHOOSE i \in DOMAIN inst :
                        /\ inst[i].FED_RSSD = k
                        /\ \A j \in DOMAIN inst : inst[j].FED_RSSD = k => j <= i
        IN  inst[last]]

\* rssd_map.get(item['rssd'], {}): a miss enriches with nothing.
LookupMutant(map, rssd) ==
    IF rssd \in DOMAIN map THEN [exc |-> "", row |-> map[rssd]]
    ELSE [exc |-> "", row |-> <<>>]
\* Line 193: rssd_map[item['rssd']]
Lookup(map, rssd) ==
    IF rssd \in DOMAIN map THEN [exc |-> "", row |-> map[rssd]]
    ELSE [exc |-> "KeyError", row |-> <<>>]

\* The extracted values kept where both have the key.
UpdateMutant(d, other) == d @@ other
\* Line 194: d.update(other); the values of other replace those of d.
Update(d, other) == other @@ d

\* Lines 185-188: the path is resolved and must exist.
CheckZipExists ==
    /\ pc = "start"
    /\ IF zip_state = "missing"
       THEN /\ pc' = "raised"
            /\ exc' = [kind |-> "NeedUBPRZipFile", path |-> ResolveZip(ubpr_zip_file)]
       ELSE /\ pc' = "roster"
            /\ exc' = exc
    /\ UNCHANGED <<ubpr_zip_file, zip_state, inst_data, ubpr_data, join_idx>>
    /\ UNCHANGED <<raw_vars, sorted_vars>>

\* Line 189: inst_data = cls.get_sorted_inst_data(), on whatever roster file
\* and download answer the call meets.
LoadRoster ==
    /\ pc = "roster"
    /\ \E rows \in RosterFiles, exists \in BOOLEAN, status \in {200, 404} :
        LET r == get_sorted_inst_data(None, FDIC_INST_FILE, exists, status, rows)
        IN  IF r.exc # ""
            THEN /\ pc' = "raised"
                 /\ exc' = [kind |-> r.exc, path |-> ""]
                 /\ UNCHANGED inst_data
            ELSE /\ pc' = "open"
                 /\ inst_data' = r.value
                 /\ exc' = exc
    /\ UNCHANGED <<ubpr_zip_file, zip_state, ubpr_data, join_idx>>
    /\ UNCHANGED <<raw_vars, sorted_vars>>

\* Lines 191 and 160: get_raw_ubpr_data is called and opens the archive.
OpenZip ==
    /\ pc = "open"
    /\ IF zip_state = "zip"
       THEN /\ pc' = "raw"
            /\ raw_pc' = "scan"
            /\ exc' = exc
       ELSE /\ pc' = "raised"
            /\ exc' = [kind |-> "BadZipFile", path |-> ""]
            /\ UNCHANGED raw_pc
    /\ UNCHANGED <<ubpr_zip_file, zip_state, inst_data, ubpr_data, join_idx>>
    /\ UNCHANGED <<rssd_filter, scanned, item, results, warnings, raw_exc>>
    /\ UNCHANGED sorted_vars

\* Line 191: an exception of get_raw_ubpr_data passes through.
RawRaised ==
    /\ pc = "raw"
    /\ raw_pc = "raised"
    /\ pc' = "raised"
    /\ exc' = [kind |-> raw_exc, path |-> ""]
    /\ UNCHANGED <<ubpr_zip_file, zip_state, inst_data, ubpr_data, join_idx>>
    /\ UNCHANGED <<raw_vars, sorted_vars>>

\* Line 191: ubpr_data = the list get_raw_ubpr_data returned.
RawReturned ==
    /\ pc = "raw"
    /\ raw_pc = "returned"
    /\ pc' = "join"
    /\ ubpr_data' = results
    /\ join_idx' = 0
    /\ UNCHANGED <<ubpr_zip_file, zip_state, inst_data, exc>>
    /\ UNCHANGED <<raw_vars, sorted_vars>>

\* Lines 192-194: one iteration of the join loop.
JoinItem ==
    /\ pc = "join"
    /\ join_idx < Len(ubpr_data)
    /\ LET i == join_idx + 1
           i_data == Lookup(rssd_map(inst_data), ubpr_data[i]["rssd"])
       IN  IF i_data.exc # ""
           THEN /\ pc' = "raised"
                /\ exc' = [kind |-> i_data.exc, path |-> ""]
                /\ UNCHANGED <<ubpr_data, join_idx>>
           ELSE /\ ubpr_data' = [ubpr_data EXCEPT ![i] = Update(@, i_data.row)]
                /\ join_idx' = i
                /\ UNCHANGED <<pc, exc>>
    /\ UNCHANGED <<ubpr_zip_file, zip_state, inst_data>>
    /\ UNCHANGED <<raw_vars, sorted_vars>>

\* Line 196: return ubpr_data
ReturnData ==
    /\ pc = "join"
    /\ join_idx = Len(ubpr_data)
    /\ pc' = "returned"
    /\ UNCHANGED <<ubpr_zip_file, zip_state, inst_data, ubpr_data, join_idx, exc>>
    /\ UNCHANGED <<raw_vars, sorted_vars>>

(***************************************************************************)
(* Claims about get_ubpr_inst_data, checked under Spec.                    *)
(***************************************************************************)
RosterKeys == {inst_data[i].FED_RSSD : i \in DOMAIN inst_data}
JoinMiss == \E i \in DOMAIN results : results[i]["rssd"] \notin RosterKeys
Finished == pc \in {"returned", "raised"}

\* C1: when a record get_raw_ubpr_data returned has an rssd that is no
\* FED_RSSD of the active, sorted roster, the call raises KeyError and returns
\* no list; the roster the lookup is built from holds active rows only.
C1_JoinMissIsFatal ==
    /\ \A i \in DOMAIN inst_data : inst_data[i].INACTIVE # "1"
    /\ (Finished /\ raw_pc = "returned" /\ JoinMiss) =>
           pc = "raised" /\ exc.kind = "KeyError"
    /\ pc = "returned" =>
           \A i \in DOMAIN ubpr_data : ubpr_data[i]["rssd"] \in RosterKeys

C1_Witness ==
    /\ pc = "raised"
    /\ exc.kind = "KeyError"
    /\ Len(results) = 2
    /\ join_idx = 1
    /\ \E i \in DOMAIN inst_data : inst_data[i].FED_RSSD = "12345"

\* C2: when every extracted rssd is in the roster lookup, the call returns as
\* many records as were extracted, in the same order; record i holds every
\* key of extracted record i and every column of a roster row with its rssd,
\* with the roster's value where both have the key.
C2_JoinPreservesRecords ==
    (Finished /\ raw_pc = "returned" /\ ~JoinMiss) =>
        /\ pc = "returned"
        /\ Len(ubpr_data) = Len(results)
        /\ \A i \in DOMAIN results :
            /\ DOMAIN ubpr_data[i] = DOMAIN results[i] \cup Columns
            /\ \E r \in DOMAIN inst_data :
                /\ inst_data[r].FED_RSSD = results[i]["rssd"]
                /\ \A k \in Columns : ubpr_data[i][k] = inst_data[r][k]
            /\ \A k \in DOMAIN results[i] \ Columns : ubpr_data[i][k] = results[i][k]

C2_Witness ==
    /\ pc = "returned"
    /\ Len(results) = 2
    /\ results[1]["rssd"] # results[2]["rssd"]
    /\ "NAME" \in DOMAIN results[1]
    /\ ubpr_data[1]["NAME"] # results[1]["NAME"]

\* C6 as stated: an archive that is missing or cannot be opened makes the
\* call fail with NeedUBPRZipFile naming the expected path.
C6_MissingOrUnopenable ==
    (Finished /\ zip_state \in {"missing", "notzip"}) =>
        /\ pc = "raised"
        /\ exc = [kind |-> "NeedUBPRZipFile",
                  path |-> IF ubpr_zip_file = None THEN DefaultZip ELSE ubpr_zip_file]

\* C6 as amended: a missing archive makes the call fail with NeedUBPRZipFile
\* naming the expected path (the given one, or the default); an archive that
\* exists and cannot be opened makes it fail with another error; no records
\* are returned either way.
C6_MissingArchive ==
    /\ (Finished /\ zip_state = "missing") =>
           /\ pc = "raised"
           /\ exc = [kind |-> "NeedUBPRZipFile",
                     path |-> IF ubpr_zip_file = None THEN DefaultZip ELSE ubpr_zip_file]
    /\ (Finished /\ zip_state = "notzip") =>
           /\ pc = "raised"
           /\ exc.kind \notin {"", "NeedUBPRZipFile"}
    /\ zip_state # "zip" => ubpr_data = <<>> /\ raw_pc = "idle"

C6_Witness ==
    /\ pc = "raised"
    /\ zip_state = "missing"
    /\ ubpr_zip_file = None
    /\ exc = [kind |-> "NeedUBPRZipFile", path |-> DefaultZip]

(***************************************************************************)
(* download_inst_file, called by several threads for one roster path       *)
(***************************************************************************)
Threads == 1..MaxThreads

\* No lock taken.
LockFreeMutant == TRUE
\* Line 221: cls._lock can be acquired.
LockFree == lock = 0

\* Lines 217-220: the existence check made before the lock is taken.
DlCheck(t) ==
    /\ dl_pc[t] = "check"
    /\ dl_pc' = [dl_pc EXCEPT ![t] = IF file # "absent" THEN "returned_existing"
                                                         ELSE "wait_lock"]
    /\ UNCHANGED <<lock, file>>

\* Line 221: with cls._lock
DlAcquire(t) ==
    /\ dl_pc[t] = "wait_lock"
    /\ LockFree
    /\ lock' = t
    /\ dl_pc' = [dl_pc EXCEPT ![t] = "get"]
    /\ UNCHANGED file

\* Lines 222-224: the download and the assert on its status; a failed assert
\* leaves the with block, which releases the lock.
DlGet(t) ==
    /\ dl_pc[t] = "get"
    /\ \E status \in {200, 404} :
        IF status = 200
        THEN /\ dl_pc' = [dl_pc EXCEPT ![t] = "open"]
             /\ UNCHANGED lock
        ELSE /\ dl_pc' = [dl_pc EXCEPT ![t] = "raised"]
             /\ lock' = 0
    /\ UNCHANGED file

\* Line 225: open(ifile, 'w') creates the file, or empties it.
DlOpen(t) ==
    /\ dl_pc[t] = "open"
    /\ file' = "partial"
    /\ dl_pc' = [dl_pc EXCEPT ![t] = "write"]
    /\ UNCHANGED lock

\* Line 226 and the end of the inner with block: the text is written and the
\* file closed.
DlWrite(t) ==
    /\ dl_pc[t] = "write"
    /\ file' = "complete"
    /\ dl_pc' = [dl_pc EXCEPT ![t] = "release"]
    /\ UNCHANGED lock

\* Line 227: the lock is released and the path returned.
DlRelease(t) ==
    /\ dl_pc[t] = "release"
    /\ lock' = 0
    /\ dl_pc' = [dl_pc EXCEPT ![t] = "returned"]
    /\ UNCHANGED file

(***************************************************************************)
(* Claims about download_inst_file, checked under SpecDl.                  *)
(***************************************************************************)
Downloading == {t \in Threads : dl_pc[t] \in {"get", "open", "write", "release"}}

\* C9: at most one thread is between the start of the download and the end
\* of the write of the roster file.
C9_OneDownloader == Cardinality(Downloading) <= 1

C9_Witness ==
    /\ Cardinality(Downloading) = 1
    /\ \E t \in Threads : dl_pc[t] = "write"
    /\ \E t \in Threads : dl_pc[t] = "wait_lock"

\* C10: a caller that returns through the existence check returns the path
\* of a completely written file.
C10_ExistingFileIsComplete ==
    [][\A t \in Threads :
        (dl_pc[t] = "check" /\ dl_pc'[t] = "returned_existing") => file = "complete"]_vars

NextRaw ==
    \/ ScanEntry(Docs) /\ UNCHANGED <<sorted_vars, join_vars, dl_vars>>
    \/ ReturnResults /\ UNCHANGED <<sorted_vars, join_vars, dl_vars>>

\* get_raw_ubpr_data is called on an open archive with some rssd_filter.
InitRaw ==
    /\ rssd_filter \in Filters
    /\ scanned = <<>> /\ item = NoItem /\ results = <<>> /\ warnings = <<>>
    /\ raw_pc = "scan" /\ raw_exc = ""
    /\ ifile = None /\ FDIC_INST_FILE = None /\ inst_rows = <<>>
    /\ inst_exists = FALSE /\ http_status = 200 /\ sorted_ret = NotCalled
    /\ ubpr_zip_file = None /\ zip_state = "missing" /\ inst_data = <<>>
    /\ ubpr_data = <<>> /\ join_idx = 0 /\ pc = "idle" /\ exc = NoExc
    /\ dl_pc = <<>> /\ lock = 0 /\ file = "absent"

SpecRaw == InitRaw /\ [][NextRaw]_vars

NextSorted == CallSorted /\ UNCHANGED <<raw_vars, join_vars, dl_vars>>

\* get_sorted_inst_data is about to be called.
InitSorted ==
    /\ ifile \in Paths
    /\ FDIC_INST_FILE \in Paths
    /\ inst_rows \in RosterFiles
    /\ inst_exists \in BOOLEAN
    /\ http_status \in {200, 404}
    /\ sorted_ret = NotCalled
    /\ rssd_filter = [given |-> FALSE, set |-> {}]
    /\ scanned = <<>> /\ item = NoItem /\ results = <<>> /\ warnings = <<>>
    /\ raw_pc = "idle" /\ raw_exc = ""
    /\ ubpr_zip_file = None /\ zip_state = "missing" /\ inst_data = <<>>
    /\ ubpr_data = <<>> /\ join_idx = 0 /\ pc = "idle" /\ exc = NoExc
    /\ dl_pc = <<>> /\ lock = 0 /\ file = "absent"

SpecSorted == InitSorted /\ [][NextSorted]_vars

Next ==
    \/ CheckZipExists /\ UNCHANGED dl_vars
    \/ LoadRoster /\ UNCHANGED dl_vars
    \/ OpenZip /\ UNCHANGED dl_vars
    \/ ScanEntry(JoinDocs) /\ UNCHANGED <<sorted_vars, join_vars, dl_vars>>
    \/ ReturnResults /\ UNCHANGED <<sorted_vars, join_vars, dl_vars>>
    \/ RawRaised /\ UNCHANGED dl_vars
    \/ RawReturned /\ UNCHANGED dl_vars
    \/ JoinItem /\ UNCHANGED dl_vars
    \/ ReturnData /\ UNCHANGED dl_vars

\* get_ubpr_inst_data is about to be called.
Init ==
    /\ ubpr_zip_file \in ZipArgs
    /\ zip_state \in {"missing", "notzip", "zip"}
    /\ FDIC_INST_FILE \in Paths
    /\ rssd_filter \in Filters
    /\ inst_data = <<>> /\ ubpr_data = <<>> /\ join_idx = 0
    /\ pc = "start" /\ exc = NoExc
    /\ scanned = <<>> /\ item = NoItem /\ results = <<>> /\ warnings = <<>>
    /\ raw_pc = "idle" /\ raw_exc = ""
    /\ ifile = None /\ inst_rows = <<>>
    /\ inst_exists = FALSE /\ http_status = 200 /\ sorted_ret = NotCalled
    /\ dl_pc = <<>> /\ lock = 0 /\ file = "absent"

Spec == Init /\ [][Next]_vars

\* Every thread is about to make the existence check; the file is absent.
InitDl ==
    /\ dl_pc = [t \in Threads |-> "check"]
    /\ lock = 0
    /\ file = "absent"
    /\ rssd_filter = [given |-> FALSE, set |-> {}]
    /\ scanned = <<>> /\ item = NoItem /\ results = <<>> /\ warnings = <<>>
    /\ raw_pc = "idle" /\ raw_exc = ""
    /\ ifile = None /\ FDIC_INST_FILE = None /\ inst_rows = <<>>
    /\ inst_exists = FALSE /\ http_status = 200 /\ sorted_ret = NotCalled
    /\ ubpr_zip_file = None /\ zip_state = "missing" /\ inst_data = <<>>
    /\ ubpr_data = <<>> /\ join_idx = 0 /\ pc = "idle" /\ exc = NoExc

NextDl ==
    \/ \E t \in Threads : DlCheck(t) /\ UNCHANGED <<raw_vars, sorted_vars, join_vars>>
    \/ \E t \in Threads : DlAcquire(t) /\ UNCHANGED <<raw_vars, sorted_vars, join_vars>>
    \/ \E t \in Threads : DlGet(t) /\ UNCHANGED <<raw_vars, sorted_vars, join_vars>>
    \/ \E t \in Threads : DlOpen(t) /\ UNCHANGED <<raw_vars, sorted_vars, join_vars>>
    \/ \E t \in Threads : DlWrite(t) /\ UNCHANGED <<raw_vars, sorted_vars, join_vars>>
    \/ \E t \in Threads : DlRelease(t) /\ UNCHANGED <<raw_vars, sorted_vars, join_vars>>

SpecDl == InitDl /\ [][NextDl]_vars

====
